---- MODULE Spec2Model ----
(***************************************************************************)
(* Room manager of neko-rooms: the engine (package room: listContainers,   *)
(* inspectContainer, List, Create, Get, Update, Remove), the HTTP handlers *)
(* of package api that drive it, and the container runtime they talk to.   *)
(* Every runtime call is one atomic step; a request is a process that      *)
(* walks through the calls of its handler, so requests interleave between  *)
(* calls exactly as concurrent HTTP requests do.                           *)
(***************************************************************************)
EXTENDS Integers, Sequences, FiniteSets, TLC

VARIABLES
    units,    \* the runtime's containers: ID -> container
    nextId,   \* the ID the runtime gives to the next created container
    pc,       \* per request slot: position in the handler
    req,      \* per request slot: the request being served
    loc,      \* per request slot: the handler's local variables
    resp,     \* per request slot: the response written
    calls     \* per request slot: runtime calls issued, in order

vars == <<units, nextId, pc, req, loc, resp, calls>>

-----------------------------------------------------------------------------
(* Bounds *)

\* containers the engine may create during one run (IDs are never reused)
MaxUnits == 2
\* longest label filter key of a List query
MaxKeyLen == 2

-----------------------------------------------------------------------------
(* Program constants *)

containerPrefix == "neko-room-"
frontendPort == 8080
labelCanary == "m1k1o-neko-rooms"
\* pathName, eprStart, eprEnd: the locals Create starts from
pathName == "foobar"
eprStart == 52135
eprEnd == 52145
\* ShmSize is counted in units of 10^9 bytes
DefaultMaxConnections == 10
DefaultShmSize == 2
HostShmSize == 2 * 10

\* errors: nil, types.ErrRoomNotFound, or any other error value
ErrNil == "nil"
ErrRoomNotFound == "ErrRoomNotFound"
ErrOther == "error"

\* config.Room: the parts of the epr flag after strings.SplitN(epr, "-", -1);
\* a part that is no number of 16 bits is one ParseUint rejects
eprFlag == <<59000, 59999>>
ParseUint16(part) ==
    IF part \in 0..65535 THEN [value |-> part, err |-> ErrNil]
    ELSE [value |-> 0, err |-> ErrOther]

\* Room.Set: the pool of ephemeral ports
RoomSet(ports) ==
    LET start == IF Len(ports) > 1 THEN ParseUint16(ports[1]) ELSE ParseUint16(-1)
        end == IF Len(ports) > 1 THEN ParseUint16(ports[2]) ELSE ParseUint16(-1)
        min == IF start.err = ErrNil THEN start.value ELSE 59000
        max == IF end.err = ErrNil THEN end.value ELSE 59100
    IN  IF min > max
        THEN [EphemeralMin |-> max, EphemeralMax |-> min]
        ELSE [EphemeralMin |-> min, EphemeralMax |-> max]

\* config.Room: the reverse proxy's domain, entrypoint and certificate resolver
TraefikDomain == "neko.lan"
TraefikEntrypoint == "web-secure"
TraefikCertresolver == "lets-encrypt"

EphemeralMin == RoomSet(eprFlag).EphemeralMin
EphemeralMax == RoomSet(eprFlag).EphemeralMax

\* the request slots (concurrent HTTP requests)
Procs == {"p1", "p2"}


-----------------------------------------------------------------------------
(* The container runtime, as the engine's calls meet it: a container name   *)
(* is unique, so ContainerCreate fails while the name is taken; host ports *)
(* are bound when a container starts, so ContainerStart fails while another*)
(* running container holds one of them; ContainerStop of a container that  *)
(* is not running succeeds; ContainerList with default options returns the *)
(* running containers only; IDs are never reused.  Any mutating call may   *)
(* also fail for reasons of the runtime's own.                             *)

NoSettings == [MaxConnections |-> 0, ShmSize |-> 0]
NoEpr == <<>>

\* containers of other tenants, present before the manager is constructed:
\* one without the canary label, one with another value under the canary key
ForeignUnits ==
    (1 :> [name |-> <<"tenant-a">>, canary |-> "", running |-> TRUE,
           epr |-> NoEpr, exposed |-> {}, bound |-> {},
           settings |-> NoSettings, shm |-> 0, traefik |-> <<>>])
    @@
    (2 :> [name |-> <<"tenant-b">>, canary |-> "someone-else", running |-> FALSE,
           epr |-> NoEpr, exposed |-> {}, bound |-> {},
           settings |-> NoSettings, shm |-> 0, traefik |-> <<>>])

ForeignIds == DOMAIN ForeignUnits
FirstId == Cardinality(ForeignIds) + 1
MaxId == Cardinality(ForeignIds) + MaxUnits
\* ids a request may name: every container ID, and 0 which no container has
Refs == 0..MaxId

Exists(us, id) == id \in DOMAIN us

\* ContainerList with default options: the running containers only
ContainerList(us) == {i \in DOMAIN us : us[i].running}

\* a container name is unique in the runtime
NameInUse(us, name) == \E i \in DOMAIN us : us[i].name = name

\* host ports bound by running containers other than id
PortsInUse(us, id) == UNION {us[i].bound : i \in {j \in DOMAIN us : j # id /\ us[j].running}}

ContainerCreateOk(us, spec) == ~NameInUse(us, spec.name)
ContainerCreate(us, id, spec) == us @@ (id :> spec)

ContainerStartOk(us, id) ==
    /\ Exists(us, id)
    /\ us[id].running \/ us[id].bound \cap PortsInUse(us, id) = {}
ContainerStart(us, id) == [us EXCEPT ![id].running = TRUE]

ContainerStopOk(us, id) == Exists(us, id)
ContainerStop(us, id) == [us EXCEPT ![id].running = FALSE]

ContainerRemoveOk(us, id) == Exists(us, id)
ContainerRemove(us, id) == [i \in DOMAIN us \ {id} |-> us[i]]

-----------------------------------------------------------------------------
(* Values of the api and types packages *)

SettingsFields == {"MaxConnections", "ShmSize"}

\* roomCreate's default request value
DefaultSettings == [MaxConnections |-> DefaultMaxConnections, ShmSize |-> DefaultShmSize]

NoFields == [f \in {} |-> 0]
NoBody == [kind |-> "none", obj |-> NoFields]
\* request bodies: nothing at all, text that is not JSON, or a JSON object
\* holding some of the settings fields
Bodies ==
    { [kind |-> "empty", obj |-> NoFields],
      [kind |-> "malformed", obj |-> NoFields],
      [kind |-> "json", obj |-> NoFields],
      [kind |-> "json", obj |-> ("MaxConnections" :> 20)] }

\* json.NewDecoder(body).Decode(&target): io.EOF on an empty body, a syntax
\* error on malformed text, otherwise the fields present overwrite target's
Decode(target, body) ==
    CASE body.kind = "empty" -> [err |-> "EOF", value |-> target]
      [] body.kind = "json" ->
            [err |-> ErrNil,
             value |-> [f \in SettingsFields |->
                          IF f \in DOMAIN body.obj THEN body.obj[f] ELSE target[f]]]
      [] OTHER -> [err |-> "syntax", value |-> target]

NoEntry == [ID |-> 0, Running |-> FALSE, settings |-> NoSettings]
NoReq == [op |-> "", id |-> 0, body |-> NoBody, query |-> {}]
NoLoc == [running |-> FALSE, settings |-> NoSettings, ID |-> 0]
\* a response: the status, the rooms or room in its body, and on failure the
\* error whose text is its body
NoResp == [status |-> 0, ids |-> {}, entry |-> NoEntry, err |-> ErrNil]

\* Label filter keys are strings over this alphabet: a lower-case letter, an
\* upper-case letter, a hyphen, a space and an underscore
Alphabet == {"a", "Z", "-", " ", "_"}
Keys == UNION {[1..n -> Alphabet] : n \in 1..MaxKeyLen}
\* the query string of GET /rooms: no key, one key or two keys
Queries == {{}} \cup {{k1, k2} : k1 \in Keys, k2 \in Keys}
FilterValue == "x"

\* strings.ToLower
ToLowerChar(c) == IF c = "Z" THEN "z" ELSE c
ToLower(key) == [i \in 1..Len(key) |-> ToLowerChar(key[i])]

\* room.CheckLabelKey: every character is one of [a-z0-9.-]
AllowedChars == {"a", "z", "-"}
CheckLabelKey(key) == \A i \in 1..Len(key) : key[i] \in AllowedChars

\* the status a handler answers for an engine error where it tells
\* ErrRoomNotFound from the rest
StatusOf(err) == IF err = ErrRoomNotFound THEN 404 ELSE 500

-----------------------------------------------------------------------------
(* The engine: package room *)

listContainers(us) ==
    [err |-> ErrNil, ids |-> {i \in ContainerList(us) : us[i].canary = labelCanary}]

\* inspectContainer without the canary check
inspectContainerAnyUnit(us, id) ==
    IF ~Exists(us, id) THEN ErrOther ELSE ErrNil

inspectContainer(us, id) ==
    IF ~Exists(us, id) THEN ErrOther
    ELSE IF us[id].canary # labelCanary THEN ErrOther
    ELSE ErrNil

List(us) == listContainers(us)

Get(us, id) ==
    LET err == inspectContainer(us, id) IN
    IF err # ErrNil THEN [err |-> err, entry |-> NoEntry]
    ELSE [err |-> ErrNil, entry |-> [ID |-> id, Running |-> FALSE, settings |-> NoSettings]]

Update(us, id) == inspectContainer(us, id)

containerName == <<containerPrefix, pathName>>

\* Create: the traefik labels, label key -> value; a string built by
\* concatenation is the sequence of its pieces, name being the container name
RoutingLabels(name, path) ==
    (<<"traefik.enable">> :> <<"true">>)
    @@ ((<<"traefik.http.services.">> \o name \o <<"-frontend.loadbalancer.server.port">>)
            :> <<frontendPort>>)
    @@ ((<<"traefik.http.routers.">> \o name \o <<".entrypoints">>) :> <<TraefikEntrypoint>>)
    @@ ((<<"traefik.http.routers.">> \o name \o <<".rule">>)
            :> <<"Host(", TraefikDomain, ") && PathPrefix(/", path, ")">>)
    @@ ((<<"traefik.http.middlewares.">> \o name \o <<"-rdr.redirectregex.regex">>)
            :> <<"/", path, "$$">>)
    @@ ((<<"traefik.http.middlewares.">> \o name \o <<"-rdr.redirectregex.replacement">>)
            :> <<"/", path, "/">>)
    @@ ((<<"traefik.http.middlewares.">> \o name \o <<"-prf.stripprefix.prefixes">>)
            :> <<"/", path, "/">>)
    @@ ((<<"traefik.http.routers.">> \o name \o <<".middlewares">>)
            :> (name \o <<"-rdr,">> \o name \o <<"-prf">>))
    @@ (IF TraefikCertresolver # ""
        THEN ((<<"traefik.http.routers.">> \o name \o <<".tls">>) :> <<"true">>)
             @@ ((<<"traefik.http.routers.">> \o name \o <<".tls.certresolver">>)
                    :> <<TraefikCertresolver>>)
        ELSE <<>>)

\* Create naming each unit after its own settings instead of the one pathName
CreateSpecOwnName(settings) ==
    [name |-> <<containerPrefix, pathName, settings>>,
     canary |-> labelCanary,
     running |-> FALSE,
     epr |-> <<eprStart, eprEnd>>,
     exposed |-> {frontendPort} \cup (eprStart..eprEnd),
     bound |-> eprStart..eprEnd,
     settings |-> settings,
     shm |-> HostShmSize,
     traefik |-> RoutingLabels(containerName, pathName)]

\* Create with a port loop that stops before eprEnd
CreateSpecShortLoop(settings) ==
    [name |-> containerName,
     canary |-> labelCanary,
     running |-> FALSE,
     epr |-> <<eprStart, eprEnd>>,
     exposed |-> {frontendPort} \cup (eprStart..(eprEnd - 1)),
     bound |-> eprStart..(eprEnd - 1),
     settings |-> settings,
     shm |-> HostShmSize,
     traefik |-> RoutingLabels(containerName, pathName)]

\* what Create asks the runtime for: config, hostConfig and the name
CreateSpec(settings) ==
    [name |-> containerName,
     canary |-> labelCanary,
     running |-> FALSE,
     epr |-> <<eprStart, eprEnd>>,
     exposed |-> {frontendPort} \cup (eprStart..eprEnd),
     bound |-> eprStart..eprEnd,
     settings |-> settings,
     shm |-> HostShmSize,
     traefik |-> RoutingLabels(containerName, pathName)]

\* the labels Create puts on the unit that a label filter can name
Labels(u) ==
    IF u.canary = "" THEN [k \in {} |-> ""]
    ELSE [k \in {<<"canary">>} |-> u.canary]

\* manager.List(labels): the owned units carrying every label of the filter
ListLabels(us, labels) ==
    LET r == listContainers(us) IN
    [err |-> r.err,
     ids |-> {i \in r.ids : \A k \in DOMAIN labels :
                 k \in DOMAIN Labels(us[i]) /\ Labels(us[i])[k] = labels[k]}]

\* GetEntry, GetSettings, Start and Stop are called by the handlers
GetEntry(us, id) ==
    LET err == inspectContainer(us, id) IN
    IF err # ErrNil THEN [err |-> err, entry |-> NoEntry]
    ELSE [err |-> ErrNil,
          entry |-> [ID |-> id, Running |-> us[id].running, settings |-> us[id].settings]]

GetSettings(us, id) ==
    LET err == inspectContainer(us, id) IN
    IF err # ErrNil THEN [err |-> err, settings |-> NoSettings]
    ELSE [err |-> ErrNil, settings |-> us[id].settings]

\* Start and Stop: the unit must be owned, then the runtime is asked; up says
\* whether the runtime carries the call out
Start(us, id, up) ==
    LET err == inspectContainer(us, id) IN
    IF err # ErrNil THEN [err |-> err, us |-> us, asked |-> FALSE]
    ELSE IF ~up \/ ~ContainerStartOk(us, id) THEN [err |-> ErrOther, us |-> us, asked |-> TRUE]
    ELSE [err |-> ErrNil, us |-> ContainerStart(us, id), asked |-> TRUE]

Stop(us, id, up) ==
    LET err == inspectContainer(us, id) IN
    IF err # ErrNil THEN [err |-> err, us |-> us, asked |-> FALSE]
    ELSE IF ~up \/ ~ContainerStopOk(us, id) THEN [err |-> ErrOther, us |-> us, asked |-> TRUE]
    ELSE [err |-> ErrNil, us |-> ContainerStop(us, id), asked |-> TRUE]

\* Remove going on to ContainerRemove whatever ContainerStop answered
RemoveIgnoringStop(ok) == "rm_delete"

\* Remove, after ContainerStop answered: an error is returned, otherwise
\* ContainerRemove is next
RemoveAfterStop(ok) == IF ok THEN "rm_delete" ELSE "return"

-----------------------------------------------------------------------------
(* The handlers: package api *)

\* a runtime call as logged: its target, whether it succeeded and, for the
\* inspect of Remove, whether the container returned was running
Call(name, id, ok) == [call |-> name, id |-> id, ok |-> ok, running |-> FALSE]
Inspected(us, id) ==
    [call |-> "ContainerInspect", id |-> id, ok |-> Exists(us, id),
     running |-> Exists(us, id) /\ us[id].running]
Answer(status) == [NoResp EXCEPT !.status = status]
AnswerErr(status, err) == [NoResp EXCEPT !.status = status, !.err = err]

\* roomGenericAction: what is answered for the action's error
GenericAnswer(err) == IF err # ErrNil THEN StatusOf(err) ELSE 204

\* roomsList without the CheckLabelKey test
roomsListKeysUnchecked(query) == TRUE

\* roomsList: every key of the query is lower-cased and then validated
roomsListKeysOk(query) == \A key \in query : CheckLabelKey(ToLower(key))

\* roomsList: the label filter handed to manager.List
roomsListLabels(query) == [k \in {ToLower(key) : key \in query} |-> FilterValue]

\* roomCreate, the body decoded onto the default values
CreateDecode(body) ==
    LET d == Decode(DefaultSettings, body) IN
    IF d.err # ErrNil THEN [pc |-> "done", status |-> 400, settings |-> NoSettings]
    ELSE [pc |-> "cr_create", status |-> 0, settings |-> d.value]

\* roomRecreate going on to Remove whatever Decode answered
RecreateDecodeUnchecked(settings, body) ==
    [pc |-> "rm_inspect", status |-> 0, settings |-> Decode(settings, body).value]

\* roomRecreate decoding the body onto the default values, as roomCreate does
RecreateDecodeOntoDefaults(settings, body) ==
    LET d == Decode(DefaultSettings, body) IN
    IF d.err # ErrNil /\ d.err # "EOF"
    THEN [pc |-> "done", status |-> 400, settings |-> NoSettings]
    ELSE [pc |-> "rm_inspect", status |-> 0, settings |-> d.value]

\* roomRecreate, the optional body decoded onto the stored settings
RecreateDecode(settings, body) ==
    LET d == Decode(settings, body) IN
    IF d.err # ErrNil /\ d.err # "EOF"
    THEN [pc |-> "done", status |-> 400, settings |-> NoSettings]
    ELSE [pc |-> "rm_inspect", status |-> 0, settings |-> d.value]

\* roomRecreate: the status answered when the engine call named fails with
\* err; only the first GetEntry tells ErrRoomNotFound from the rest
RecreateStatus(call, err) == IF call = "GetEntry" THEN StatusOf(err) ELSE 500

\* roomCreate: the status answered when an engine call fails
CreateStatus(call, err) == 500

\* the status roomCreate or roomRecreate answers for a failed engine call
HandlerStatus(op, call, err) ==
    IF op = "Recreate" THEN RecreateStatus(call, err) ELSE CreateStatus(call, err)

\* the room-scoped endpoints and the engine calls each of them makes
RoomEndpoints == {"GetEntry", "GetSettings", "GetStats", "Start", "Stop", "Remove", "Recreate"}
EngineCalls(endpoint) ==
    IF endpoint = "Recreate"
    THEN {"GetEntry", "GetSettings", "Remove", "Create", "Start", "GetEntryNew"}
    ELSE {endpoint}

\* the status an endpoint answers when its engine call named fails with err
EndpointStatus(endpoint, call, err) ==
    CASE endpoint \in {"GetEntry", "GetSettings", "GetStats"} -> StatusOf(err)
      [] endpoint \in {"Start", "Stop", "Remove"} -> GenericAnswer(err)
      [] OTHER -> RecreateStatus(call, err)

\* roomRecreate going on to Create whatever Remove returned
RecreateIgnoringRemove(err) == "cr_create"

\* roomRecreate, after Remove returned: an error ends the request, otherwise
\* Create is next
RecreateAfterRemove(err) == IF err # ErrNil THEN "done" ELSE "cr_create"

\* roomRecreate, after Create returned without error
RecreateAfterCreate(running) == IF running THEN "h_start" ELSE "h_get"

Init ==
    /\ units = ForeignUnits
    /\ nextId = FirstId
    /\ pc = [p \in Procs |-> "idle"]
    /\ req = [p \in Procs |-> NoReq]
    /\ loc = [p \in Procs |-> NoLoc]
    /\ resp = [p \in Procs |-> NoResp]
    /\ calls = [p \in Procs |-> <<>>]

\* the request in slot p is answered
Finish(p, r) ==
    /\ pc' = [pc EXCEPT ![p] = "done"]
    /\ resp' = [resp EXCEPT ![p] = r]

\* the request in slot p moves on to position to
Goto(p, to) ==
    /\ pc' = [pc EXCEPT ![p] = to]
    /\ UNCHANGED resp

Issue(p, c) == calls' = [calls EXCEPT ![p] = Append(@, c)]

\* manager.List()
EngList(p) ==
    /\ pc[p] = "idle"
    /\ LET r == List(units) IN
         /\ req' = [req EXCEPT ![p] = [NoReq EXCEPT !.op = "List"]]
         /\ Issue(p, Call("ContainerList", 0, TRUE))
         /\ Finish(p, [NoResp EXCEPT !.status = IF r.err = ErrNil THEN 200 ELSE 500,
                                      !.ids = r.ids, !.err = r.err])
    /\ UNCHANGED <<units, nextId, loc>>

\* GET /rooms?key=value
roomsList(p) ==
    /\ pc[p] = "idle"
    /\ \E query \in Queries :
         /\ req' = [req EXCEPT ![p] = [NoReq EXCEPT !.op = "roomsList", !.query = query]]
         /\ IF ~roomsListKeysOk(query)
            THEN /\ Finish(p, AnswerErr(400, "invalid label name"))
                 /\ UNCHANGED calls
            ELSE LET r == ListLabels(units, roomsListLabels(query)) IN
                 /\ Issue(p, Call("ContainerList", 0, TRUE))
                 /\ Finish(p, [NoResp EXCEPT !.status = IF r.err = ErrNil THEN 200 ELSE 500,
                                              !.ids = r.ids, !.err = r.err])
    /\ UNCHANGED <<units, nextId, loc>>

\* manager.Get(id)
EngGet(p) ==
    /\ pc[p] = "idle"
    /\ \E id \in Refs :
         LET r == Get(units, id) IN
         /\ req' = [req EXCEPT ![p] = [NoReq EXCEPT !.op = "Get", !.id = id]]
         /\ Issue(p, Call("ContainerInspect", id, Exists(units, id)))
         /\ Finish(p, [NoResp EXCEPT !.status = IF r.err = ErrNil THEN 200 ELSE 500,
                                      !.entry = r.entry, !.err = r.err])
    /\ UNCHANGED <<units, nextId, loc>>

\* manager.Update(id, settings)
EngUpdate(p) ==
    /\ pc[p] = "idle"
    /\ \E id \in Refs :
         LET err == Update(units, id) IN
         /\ req' = [req EXCEPT ![p] = [NoReq EXCEPT !.op = "Update", !.id = id]]
         /\ Issue(p, Call("ContainerInspect", id, Exists(units, id)))
         /\ Finish(p, AnswerErr(IF err = ErrNil THEN 200 ELSE 500, err))
    /\ UNCHANGED <<units, nextId, loc>>

\* GET /rooms/{id}
roomGetEntry(p) ==
    /\ pc[p] = "idle"
    /\ \E id \in Refs :
         LET r == GetEntry(units, id) IN
         /\ req' = [req EXCEPT ![p] = [NoReq EXCEPT !.op = "GetEntry", !.id = id]]
         /\ Issue(p, Call("ContainerInspect", id, Exists(units, id)))
         /\ Finish(p, [NoResp EXCEPT !.status = IF r.err = ErrNil
                                                 THEN 200
                                                 ELSE EndpointStatus("GetEntry", "GetEntry", r.err),
                                      !.entry = r.entry, !.err = r.err])
    /\ UNCHANGED <<units, nextId, loc>>

\* POST /rooms/{id}/start
GenericStart(p) ==
    /\ pc[p] = "idle"
    /\ \E id \in Refs, up \in BOOLEAN :
         LET r == Start(units, id, up) IN
         /\ req' = [req EXCEPT ![p] = [NoReq EXCEPT !.op = "Start", !.id = id]]
         /\ units' = r.us
         /\ calls' = [calls EXCEPT ![p] =
                <<Call("ContainerInspect", id, Exists(units, id))>>
                \o (IF r.asked THEN <<Call("ContainerStart", id, r.err = ErrNil)>> ELSE <<>>)]
         /\ Finish(p, AnswerErr(GenericAnswer(r.err), r.err))
    /\ UNCHANGED <<nextId, loc>>

\* POST /rooms/{id}/stop
GenericStop(p) ==
    /\ pc[p] = "idle"
    /\ \E id \in Refs, up \in BOOLEAN :
         LET r == Stop(units, id, up) IN
         /\ req' = [req EXCEPT ![p] = [NoReq EXCEPT !.op = "Stop", !.id = id]]
         /\ units' = r.us
         /\ calls' = [calls EXCEPT ![p] =
                <<Call("ContainerInspect", id, Exists(units, id))>>
                \o (IF r.asked THEN <<Call("ContainerStop", id, r.err = ErrNil)>> ELSE <<>>)]
         /\ Finish(p, AnswerErr(GenericAnswer(r.err), r.err))
    /\ UNCHANGED <<nextId, loc>>

\* POST /rooms/{id}/remove: the handler calls manager.Remove(id)
GenericRemove(p) ==
    /\ pc[p] = "idle"
    /\ \E id \in Refs :
         req' = [req EXCEPT ![p] = [NoReq EXCEPT !.op = "Remove", !.id = id]]
    /\ Goto(p, "rm_inspect")
    /\ UNCHANGED <<units, nextId, loc, calls>>

\* manager.Remove returns err to its caller: roomGenericAction answers,
\* roomRecreate answers 500 or goes on to Create
RemoveReturns(p, err) ==
    IF req[p].op = "Recreate"
    THEN IF RecreateAfterRemove(err) = "done"
         THEN Finish(p, AnswerErr(RecreateStatus("Remove", err), err))
         ELSE Goto(p, "cr_create")
    ELSE Finish(p, AnswerErr(GenericAnswer(err), err))

\* Remove: inspectContainer(id)
RemoveInspect(p) ==
    /\ pc[p] = "rm_inspect"
    /\ LET err == inspectContainer(units, req[p].id) IN
         /\ Issue(p, Inspected(units, req[p].id))
         /\ IF err # ErrNil THEN RemoveReturns(p, err) ELSE Goto(p, "rm_stop")
    /\ UNCHANGED <<units, nextId, req, loc>>

\* Remove: ContainerStop(id)
RemoveStop(p) ==
    /\ pc[p] = "rm_stop"
    /\ \E up \in BOOLEAN :
         LET ok == up /\ ContainerStopOk(units, req[p].id) IN
         /\ units' = IF ok THEN ContainerStop(units, req[p].id) ELSE units
         /\ Issue(p, Call("ContainerStop", req[p].id, ok))
         /\ IF RemoveAfterStop(ok) = "rm_delete"
            THEN Goto(p, "rm_delete")
            ELSE RemoveReturns(p, ErrOther)
    /\ UNCHANGED <<nextId, req, loc>>

\* Remove: ContainerRemove(id, force, with volumes)
RemoveDelete(p) ==
    /\ pc[p] = "rm_delete"
    /\ \E up \in BOOLEAN :
         LET ok == up /\ ContainerRemoveOk(units, req[p].id) IN
         /\ units' = IF ok THEN ContainerRemove(units, req[p].id) ELSE units
         /\ Issue(p, Call("ContainerRemove", req[p].id, ok))
         /\ RemoveReturns(p, IF ok THEN ErrNil ELSE ErrOther)
    /\ UNCHANGED <<nextId, req, loc>>

\* POST /rooms: the body is decoded, then manager.Create is called
roomCreate(p) ==
    /\ pc[p] = "idle"
    /\ \E body \in Bodies :
         LET d == CreateDecode(body) IN
         /\ req' = [req EXCEPT ![p] = [NoReq EXCEPT !.op = "Create", !.body = body]]
         /\ loc' = [loc EXCEPT ![p] = [NoLoc EXCEPT !.settings = d.settings]]
         /\ IF d.pc = "done"
            THEN Finish(p, AnswerErr(d.status, Decode(DefaultSettings, body).err))
            ELSE Goto(p, d.pc)
    /\ UNCHANGED <<units, nextId, calls>>

\* Create: ContainerCreate(config, hostConfig, networkingConfig, containerName)
CreateCreate(p) ==
    /\ pc[p] = "cr_create"
    /\ \E up \in (IF nextId <= MaxId THEN BOOLEAN ELSE {FALSE}) :
         LET spec == CreateSpec(loc[p].settings)
             ok == up /\ ContainerCreateOk(units, spec)
         IN
         /\ Issue(p, Call("ContainerCreate", IF ok THEN nextId ELSE 0, ok))
         /\ IF ok
            THEN /\ units' = ContainerCreate(units, nextId, spec)
                 /\ nextId' = nextId + 1
                 /\ loc' = [loc EXCEPT ![p].ID = nextId]
                 /\ Goto(p, "cr_start")
            ELSE /\ UNCHANGED <<units, nextId, loc>>
                 /\ Finish(p, AnswerErr(HandlerStatus(req[p].op, "Create", ErrOther), ErrOther))
    /\ UNCHANGED req

\* Create: ContainerStart(cont.ID), then the room is returned to the handler
CreateStart(p) ==
    /\ pc[p] = "cr_start"
    /\ \E up \in BOOLEAN :
         LET ok == up /\ ContainerStartOk(units, loc[p].ID) IN
         /\ units' = IF ok THEN ContainerStart(units, loc[p].ID) ELSE units
         /\ Issue(p, Call("ContainerStart", loc[p].ID, ok))
         /\ IF ~ok THEN Finish(p, AnswerErr(HandlerStatus(req[p].op, "Create", ErrOther), ErrOther))
            ELSE IF req[p].op = "Recreate"
                 THEN Goto(p, RecreateAfterCreate(loc[p].running))
                 ELSE Goto(p, "h_start")
    /\ UNCHANGED <<nextId, req, loc>>

\* roomCreate and roomRecreate: manager.Start(ID)
HandlerStart(p) ==
    /\ pc[p] = "h_start"
    /\ \E up \in BOOLEAN :
         LET r == Start(units, loc[p].ID, up) IN
         /\ units' = r.us
         /\ calls' = [calls EXCEPT ![p] = @
                \o <<Call("ContainerInspect", loc[p].ID, Exists(units, loc[p].ID))>>
                \o (IF r.asked THEN <<Call("ContainerStart", loc[p].ID, r.err = ErrNil)>> ELSE <<>>)]
         /\ IF r.err # ErrNil
            THEN Finish(p, AnswerErr(HandlerStatus(req[p].op, "Start", r.err), r.err))
            ELSE Goto(p, "h_get")
    /\ UNCHANGED <<nextId, req, loc>>

\* roomCreate and roomRecreate: manager.GetEntry(ID) and the response
HandlerGetEntry(p) ==
    /\ pc[p] = "h_get"
    /\ LET r == GetEntry(units, loc[p].ID) IN
         /\ Issue(p, Call("ContainerInspect", loc[p].ID, Exists(units, loc[p].ID)))
         /\ IF r.err # ErrNil
            THEN Finish(p, AnswerErr(HandlerStatus(req[p].op, "GetEntryNew", r.err), r.err))
            ELSE Finish(p, [NoResp EXCEPT !.status = 200, !.entry = r.entry])
    /\ UNCHANGED <<units, nextId, req, loc>>

\* POST /rooms/{id}/recreate with a body out of bodies: manager.GetEntry(roomId)
roomRecreateWith(p, bodies) ==
    /\ pc[p] = "idle"
    /\ \E id \in Refs, body \in bodies :
         LET r == GetEntry(units, id) IN
         /\ req' = [req EXCEPT ![p] = [NoReq EXCEPT !.op = "Recreate", !.id = id, !.body = body]]
         /\ Issue(p, Call("ContainerInspect", id, Exists(units, id)))
         /\ IF r.err # ErrNil
            THEN /\ Finish(p, AnswerErr(RecreateStatus("GetEntry", r.err), r.err))
                 /\ UNCHANGED loc
            ELSE /\ Goto(p, "rc_settings")
                 /\ loc' = [loc EXCEPT ![p].running = r.entry.Running]
    /\ UNCHANGED <<units, nextId>>

\* POST /rooms/{id}/recreate
roomRecreate(p) == roomRecreateWith(p, Bodies)

\* roomRecreate: manager.GetSettings(roomId), then the body is decoded
RecreateGetSettings(p) ==
    /\ pc[p] = "rc_settings"
    /\ LET r == GetSettings(units, req[p].id)
             d == RecreateDecode(r.settings, req[p].body)
         IN
         /\ Issue(p, Call("ContainerInspect", req[p].id, Exists(units, req[p].id)))
         /\ IF r.err # ErrNil
            THEN /\ Finish(p, AnswerErr(RecreateStatus("GetSettings", r.err), r.err))
                 /\ UNCHANGED loc
            ELSE /\ loc' = [loc EXCEPT ![p].settings = d.settings]
                 /\ IF d.pc = "done"
                    THEN Finish(p, AnswerErr(d.status, Decode(r.settings, req[p].body).err))
                    ELSE Goto(p, d.pc)
    /\ UNCHANGED <<units, nextId, req>>

\* the response is sent and the slot is free for the next request
Return(p) ==
    /\ pc[p] = "done"
    /\ pc' = [pc EXCEPT ![p] = "idle"]
    /\ req' = [req EXCEPT ![p] = NoReq]
    /\ loc' = [loc EXCEPT ![p] = NoLoc]
    /\ resp' = [resp EXCEPT ![p] = NoResp]
    /\ calls' = [calls EXCEPT ![p] = <<>>]
    /\ UNCHANGED <<units, nextId>>

Next ==
    \/ \E p \in Procs : EngList(p)
    \/ \E p \in Procs : EngGet(p)
    \/ \E p \in Procs : EngUpdate(p)
    \/ \E p \in Procs : roomGetEntry(p)
    \/ \E p \in Procs : GenericStart(p)
    \/ \E p \in Procs : GenericStop(p)
    \/ \E p \in Procs : GenericRemove(p)
    \/ \E p \in Procs : RemoveInspect(p)
    \/ \E p \in Procs : RemoveStop(p)
    \/ \E p \in Procs : RemoveDelete(p)
    \/ \E p \in Procs : roomCreate(p)
    \/ \E p \in Procs : CreateCreate(p)
    \/ \E p \in Procs : CreateStart(p)
    \/ \E p \in Procs : HandlerStart(p)
    \/ \E p \in Procs : HandlerGetEntry(p)
    \/ \E p \in Procs : roomRecreate(p)
    \/ \E p \in Procs : RecreateGetSettings(p)
    \/ \E p \in Procs : Return(p)

Spec == Init /\ [][Next]_vars

\* GET /rooms on its own: the runtime holds the other tenants' containers and
\* possibly one room, running or not
InitList ==
    /\ \E room \in {"none", "created", "running"} :
         /\ units = IF room = "none" THEN ForeignUnits
                    ELSE ForeignUnits @@ (FirstId :>
                           [CreateSpec(DefaultSettings) EXCEPT !.running = (room = "running")])
         /\ nextId = IF room = "none" THEN FirstId ELSE FirstId + 1
    /\ pc = [p \in Procs |-> "idle"]
    /\ req = [p \in Procs |-> NoReq]
    /\ loc = [p \in Procs |-> NoLoc]
    /\ resp = [p \in Procs |-> NoResp]
    /\ calls = [p \in Procs |-> <<>>]

NextList ==
    \/ roomsList("p1")
    \/ Return("p1")

SpecList == InitList /\ [][NextList]_vars

\* The room-scoped endpoints against any engine: an engine call of the
\* endpoint fails with ErrRoomNotFound or with another error, and the handler
\* answers
EngineErrors == {ErrRoomNotFound, ErrOther}

EndpointFails(p) ==
    /\ pc[p] = "idle"
    /\ \E endpoint \in RoomEndpoints, id \in Refs, err \in EngineErrors :
         \E call \in EngineCalls(endpoint) :
            /\ req' = [req EXCEPT ![p] = [NoReq EXCEPT !.op = endpoint, !.id = id]]
            /\ calls' = [calls EXCEPT ![p] = <<Call(call, id, FALSE)>>]
            /\ Finish(p, AnswerErr(EndpointStatus(endpoint, call, err), err))
    /\ UNCHANGED <<units, nextId, loc>>

NextStatus ==
    \/ \E p \in Procs : EndpointFails(p)
    \/ \E p \in Procs : Return(p)

SpecStatus == Init /\ [][NextStatus]_vars

\* POST /rooms/{id}/recreate on its own, one request at a time: the runtime
\* holds one room, running or not, created with any of the settings, and the
\* body overrides any subset of the settings fields
StoredSettings ==
    {[MaxConnections |-> mc, ShmSize |-> shm] : mc \in {DefaultMaxConnections, 20},
                                               shm \in {DefaultShmSize, 1}}
OverrideBodies ==
    { [kind |-> "empty", obj |-> NoFields],
      [kind |-> "malformed", obj |-> NoFields] }
    \cup
    { [kind |-> "json", obj |-> [f \in fs |-> IF f = "MaxConnections" THEN 20 ELSE 1]] :
        fs \in SUBSET SettingsFields }

InitSettings ==
    /\ \E stored \in StoredSettings, running \in BOOLEAN :
         units = ForeignUnits @@ (FirstId :> [CreateSpec(stored) EXCEPT !.running = running])
    /\ nextId = FirstId + 1
    /\ pc = [p \in Procs |-> "idle"]
    /\ req = [p \in Procs |-> NoReq]
    /\ loc = [p \in Procs |-> NoLoc]
    /\ resp = [p \in Procs |-> NoResp]
    /\ calls = [p \in Procs |-> <<>>]

NextSettings ==
    \/ roomRecreateWith("p1", OverrideBodies)
    \/ RecreateGetSettings("p1")
    \/ RemoveInspect("p1")
    \/ RemoveStop("p1")
    \/ RemoveDelete("p1")
    \/ CreateCreate("p1")
    \/ CreateStart("p1")
    \/ HandlerStart("p1")
    \/ HandlerGetEntry("p1")
    \/ Return("p1")

SpecSettings == InitSettings /\ [][NextSettings]_vars

-----------------------------------------------------------------------------
(* Properties *)

Owned(us) == {i \in DOMAIN us : us[i].canary = labelCanary}
Unowned(us) == {i \in DOMAIN us : us[i].canary # labelCanary}
PortRange(u) == u.epr[1]..u.epr[2]
CallsOf(p, names) == {k \in 1..Len(calls[p]) : calls[p][k].call \in names}
Mutating == {"ContainerCreate", "ContainerStart", "ContainerStop", "ContainerRemove"}
Done(p, op) == pc[p] = "done" /\ req[p].op = op

C2_UnownedInvisible ==
    /\ Unowned(units) = ForeignIds
    /\ \A i \in ForeignIds : units[i] = ForeignUnits[i]
    /\ \A p \in Procs :
         /\ resp[p].ids \cap ForeignIds = {}
         /\ resp[p].entry.ID \notin ForeignIds
         /\ \A k \in CallsOf(p, Mutating) : calls[p][k].id \notin ForeignIds

\* C2 witness: a Remove naming a running unowned unit has been answered, and
\* a List has been answered while that unit runs.
C2_Witness ==
    \E p \in Procs, q \in Procs :
        /\ Done(p, "Remove")
        /\ req[p].id \in ForeignIds
        /\ units[req[p].id].running
        /\ Done(q, "List")

\* C3: GET /rooms/{id} for an id the runtime knows but whose unit lacks the
\* canary label is answered 404 (NotFound), not 500.
C3_UnownedIsNotFound ==
    \A p \in Procs :
        Done(p, "GetEntry") /\ req[p].id \in ForeignIds => resp[p].status = 404

\* C4: a Recreate that succeeds with no settings override answers a room
\* that is running if and only if the old room was running when it began.
C4_RecreateKeepsRunning ==
    \A p \in Procs :
        Done(p, "Recreate") /\ resp[p].status = 200 /\ DOMAIN req[p].body.obj = {}
            => resp[p].entry.Running = loc[p].running

\* C5: when the Remove step of Recreate succeeded and its Create fails, the
\* request is answered with an error, the old room is gone and no
\* replacement room exists.
C5_FailedRecreateLeavesNothing ==
    [][\A p \in Procs :
          req[p].op = "Recreate" /\ pc[p] \in {"cr_create", "cr_start"} /\ pc'[p] = "done"
              => /\ resp'[p].status = 500
                 /\ req[p].id \notin DOMAIN units'
                 /\ loc'[p].ID \notin DOMAIN units']_vars

\* C6: Remove of an id that is absent from the runtime or names an unowned
\* unit is answered 404 (NotFound) and issues no stop and no delete.
C6_RemoveAbsentIsNotFound ==
    \A p \in Procs :
        Done(p, "Remove") /\ (req[p].id \in ForeignIds \/ req[p].id = 0)
            => /\ resp[p].status = 404
               /\ CallsOf(p, {"ContainerStop", "ContainerRemove"}) = {}

\* C7: Remove issues the runtime delete only directly after a runtime stop of
\* the same unit that succeeded, and once Remove has succeeded no unit with
\* that id remains.
C7_StopBeforeDelete ==
    \A p \in Procs :
        /\ \A k \in CallsOf(p, {"ContainerRemove"}) :
             /\ k > 1
             /\ calls[p][k - 1].call = "ContainerStop"
             /\ calls[p][k - 1].ok
             /\ calls[p][k - 1].id = calls[p][k].id
        /\ Done(p, "Remove") /\ resp[p].status = 204 => req[p].id \notin DOMAIN units

\* C7 witness: a Remove of an owned room that was running when it was
\* inspected has been answered 204.
C7_Witness ==
    \E p \in Procs :
        /\ Done(p, "Remove")
        /\ resp[p].status = 204
        /\ calls[p][1].running
        /\ Len(calls[p]) = 3

\* C8 as stated: for every label filter key the validator rejects, upper-case
\* keys included, GET /rooms is answered 400 and no runtime call is issued.
C8_RejectedKeyFails ==
    \A p \in Procs :
        Done(p, "roomsList") /\ (\E key \in req[p].query : ~CheckLabelKey(key))
            => resp[p].status = 400 /\ calls[p] = <<>>

\* C8 amended: for every label filter key whose lower-cased form the
\* validator rejects, GET /rooms is answered 400 and no runtime call is issued.
C8_RejectedLowerKeyFails ==
    \A p \in Procs :
        Done(p, "roomsList") /\ (\E key \in req[p].query : ~CheckLabelKey(ToLower(key)))
            => resp[p].status = 400 /\ calls[p] = <<>>

\* C8 witness: a query with a key holding a space, next to a valid key, has
\* been answered 400.
C8_Witness ==
    \E p \in Procs :
        /\ Done(p, "roomsList")
        /\ <<"a", " ">> \in req[p].query
        /\ <<"a">> \in req[p].query
        /\ resp[p].status = 400

\* C9: when Create returns a room to its caller, the unit is created and not
\* running.
C9_CreateDoesNotStart ==
    [][\A p \in Procs :
          pc[p] = "cr_start" /\ pc'[p] \in {"h_start", "h_get"}
              => ~units'[loc[p].ID].running]_vars

\* C10: a request with a malformed body issues no mutating runtime call and
\* changes no unit; POST /rooms answers it 400, and recreate answers it 400
\* once the room's entry and settings have been read.
C10_MalformedTouchesNothing ==
    /\ [](\A p \in Procs :
            pc[p] = "done" /\ req[p].body.kind = "malformed"
                => /\ CallsOf(p, Mutating) = {}
                   /\ req[p].op = "Create" => resp[p].status = 400 /\ calls[p] = <<>>
                   /\ req[p].op = "Recreate" /\ Len(calls[p]) = 2 /\ calls[p][2].ok
                        => resp[p].status = 400)
    /\ [][\A p \in Procs :
            req'[p].body.kind = "malformed" /\ pc'[p] # pc[p] => units' = units]_vars

\* C10 witness: a recreate of a live owned room with a malformed body has
\* been answered 400, and a POST /rooms with a malformed body as well.
C10_Witness ==
    \E p \in Procs, q \in Procs :
        /\ Done(p, "Recreate")
        /\ req[p].body.kind = "malformed"
        /\ resp[p].status = 400
        /\ req[p].id \in Owned(units)
        /\ Done(q, "Create")
        /\ req[q].body.kind = "malformed"
        /\ resp[q].status = 400

\* C11: recreate hands Create the stored settings with exactly the fields of
\* the body replaced: a field absent from the body keeps its stored value, an
\* empty body leaves all of them, and the room answered carries the result.
C11_OverrideMerges ==
    \A p \in Procs :
        /\ req[p].op = "Recreate" /\ pc[p] \in {"rm_inspect", "rm_stop", "rm_delete"}
                /\ req[p].id \in DOMAIN units
            => \A f \in SettingsFields :
                 loc[p].settings[f] = IF f \in DOMAIN req[p].body.obj
                                      THEN req[p].body.obj[f]
                                      ELSE units[req[p].id].settings[f]
        /\ Done(p, "Recreate") /\ resp[p].status = 200
            => resp[p].entry.settings = loc[p].settings

\* C11 witness: stored {MaxConnections 10, ShmSize 2}, body {MaxConnections 20}
\* has been decoded to {MaxConnections 20, ShmSize 2}, the old room still there.
C11_Witness ==
    \E p \in Procs :
        /\ req[p].op = "Recreate" /\ pc[p] = "rm_inspect"
        /\ req[p].id \in DOMAIN units
        /\ units[req[p].id].settings = [MaxConnections |-> 10, ShmSize |-> 2]
        /\ req[p].body.obj = ("MaxConnections" :> 20)
        /\ loc[p].settings = [MaxConnections |-> 20, ShmSize |-> 2]

\* C12: a room-scoped endpoint answers 404 exactly when its failing engine
\* call reported ErrRoomNotFound, and 500 for every other failure, whichever
\* step of the request the call is.
C12_NotFoundIs404 ==
    \A p \in Procs :
        pc[p] = "done" /\ req[p].op \in RoomEndpoints /\ resp[p].err \in EngineErrors
            => /\ resp[p].status = 404 <=> resp[p].err = ErrRoomNotFound
               /\ resp[p].status = 500 <=> resp[p].err # ErrRoomNotFound

\* the width of the range Create asks for, the ranges of the live owned rooms
\* and the sub-ranges of the pool of that width that overlap none of them
Width == eprEnd - eprStart + 1
Claimed(us) == UNION {PortRange(us[i]) : i \in Owned(us)}
FreeStarts(us) ==
    {s \in EphemeralMin..(EphemeralMax - Width + 1) :
        \A q \in Claimed(us) : q < s \/ q > s + Width - 1}
Created(us, vs) == {i \in Owned(vs) : i \notin DOMAIN us}

\* C13: the range Create gives a new room is the free sub-range of the pool
\* with the lowest start, free meaning that it overlaps the range of no live
\* owned room at the time of the call, and the pool has such a sub-range
\* whenever Create makes a room.
C13_LowestFreeRange ==
    [][\A i \in Created(units, units') :
          /\ FreeStarts(units) # {}
          /\ units'[i].epr[1] = CHOOSE s \in FreeStarts(units) :
                                    \A t \in FreeStarts(units) : s <= t
          /\ units'[i].epr[2] = units'[i].epr[1] + Width - 1]_vars

\* C14: every range Create assigns has start <= end and lies inside the
\* configured pool [EphemeralMin, EphemeralMax].
C14_RangeInsidePool ==
    \A i \in Owned(units) :
        i >= FirstId =>
            /\ units[i].epr[1] <= units[i].epr[2]
            /\ EphemeralMin <= units[i].epr[1]
            /\ units[i].epr[2] <= EphemeralMax

\* C15: a Create that fails on a runtime call leaves no owned unit of its own
\* behind, and with it no claimed name or port range, so that the caller can
\* invoke Create again.
C15_FailedCreateLeavesNothing ==
    [][\A p \in Procs :
          pc[p] \in {"cr_create", "cr_start"} /\ pc'[p] = "done"
              => loc'[p].ID \notin Owned(units')]_vars

\* C16: the range label of every unit Create made describes exactly the ports
\* the unit holds: its host-bound ports are start..end, and its exposed ports
\* are start..end and the primary service port.
C16_LabelDescribesPorts ==
    \A i \in Owned(units) :
        i >= FirstId =>
            /\ units[i].bound = PortRange(units[i])
            /\ units[i].exposed = PortRange(units[i]) \cup {frontendPort}

C16_Witness ==
    \E i \in Owned(units) :
        /\ i >= FirstId
        /\ units[i].epr = <<eprStart, eprEnd>>
        /\ Cardinality(units[i].bound) = Width
        /\ Cardinality(units[i].exposed) = Width + 1

\* C17: the shared-memory limit of every unit Create made equals the ShmSize
\* of the settings Create was given.
C17_ShmFollowsSettings ==
    \A i \in Owned(units) :
        i >= FirstId => units[i].shm = units[i].settings.ShmSize

\* the routing rule keys of a room that are its own (every key but the
\* enable flag carries the container name) and its path-prefix match rules
PerRoomKeys(u) == DOMAIN u.traefik \ {<<"traefik.enable">>}
PathRules(u) == {u.traefik[k] : k \in {l \in DOMAIN u.traefik : l[Len(l)] = ".rule"}}

PassedRemove(p) ==
    \E k \in CallsOf(p, {"ContainerRemove"}) : calls[p][k].ok /\ calls[p][k].id = req[p].id
MadeBy(p) == {calls[p][k].id : k \in {l \in CallsOf(p, {"ContainerCreate"}) : calls[p][l].ok}}

\* C19: of two Recreate requests for the same room id at most one passes the
\* Remove step and goes on to Create; the other is answered with an error and
\* asks the runtime to create nothing, so at most one replacement room
\* exists.
C19_OneRecreateWins ==
    \A p \in Procs, q \in Procs :
        p # q /\ req[p].op = "Recreate" /\ req[q].op = "Recreate" /\ req[p].id = req[q].id
            => /\ ~(PassedRemove(p) /\ PassedRemove(q))
               /\ (~PassedRemove(q)) => (CallsOf(q, {"ContainerCreate"}) = {})
               /\ (~PassedRemove(q) /\ pc[q] = "done") => (resp[q].status # 200)
               /\ Cardinality((MadeBy(p) \cup MadeBy(q)) \cap DOMAIN units) <= 1

\* C19 witness: both requests reached the Remove step of the same room; one
\* removed it and answered its replacement, the other was turned down there.
C19_Witness ==
    \E p \in Procs, q \in Procs :
        /\ p # q /\ Done(p, "Recreate") /\ Done(q, "Recreate") /\ req[p].id = req[q].id
        /\ PassedRemove(p) /\ resp[p].status = 200
        /\ MadeBy(p) \cap Owned(units) # {}
        /\ \E k \in CallsOf(q, {"ContainerStop", "ContainerRemove"}) : ~calls[q][k].ok
        /\ \E k \in CallsOf(q, {"ContainerInspect"}) : calls[q][k].ok
        /\ resp[q].status = 500

\* C20: when the handler's Start fails after Create succeeded, the request is
\* answered 500 and nothing is cleaned up: the step leaves the runtime as it
\* was, and the new unit, unless another request removed it meanwhile, is an
\* owned room that is not running and holds its port range and its name.
C20_FailedStartLeavesStoppedRoom ==
    [][\A p \in Procs :
          (pc[p] = "h_start" /\ pc'[p] = "done")
              => /\ resp'[p].status = 500
                 /\ units' = units
                 /\ (loc[p].ID \in DOMAIN units')
                      => /\ loc[p].ID \in Owned(units')
                         /\ ~units'[loc[p].ID].running
                         /\ units'[loc[p].ID].epr = <<eprStart, eprEnd>>
                         /\ units'[loc[p].ID].name = containerName]_vars

====
